---- MODULE Spec2Model ----
(***************************************************************************)
(* IntegrationParameters (src/dynamics/integration_parameters.rs): the     *)
(* record of solver settings, its two constructors (new, default), the     *)
(* readers dt() and inv_dt() and the writers set_dt() and set_inv_dt().    *)
(*                                                                         *)
(* f32 is modelled as a binary floating-point format of the IEEE-754       *)
(* shape: MantBits bits of significand (hidden bit included), exponents    *)
(* 1-EMax .. EMax, gradual underflow, signed zeros, infinities and NaN,    *)
(* round to nearest, ties to even.  A finite magnitude is kept as an       *)
(* integer count of the smallest subnormal (a "unit").                     *)
(***************************************************************************)
EXTENDS Integers, Sequences, FiniteSets, TLC

\* --------------------------------------------------------------------------
\* Bounds of the floating-point format
\* --------------------------------------------------------------------------
MantBits == 3

EMax == 8

RECURSIVE Pow2(_)
Pow2(k) == IF k <= 0 THEN 1 ELSE 2 * Pow2(k - 1)

\* 1.0 in units: the unit is 2^(2 - EMax - MantBits).
One == Pow2(EMax + MantBits - 2)

\* 2^(EMax+1) in units: the first magnitude that no longer is finite.
Over == Pow2(MantBits) * Pow2(2 * EMax - 1)

\* The largest finite magnitude, (2 - 2^(1-MantBits)) * 2^EMax, in units.
MaxMag == (Pow2(MantBits) - 1) * Pow2(2 * EMax - 1)

\* The positive finite magnitudes: subnormal and normal.
Rep == {m * Pow2(k) : m \in 1 .. (Pow2(MantBits) - 1), k \in 0 .. (2 * EMax - 1)}

\* The rounding grid: zero, the finite magnitudes, and the overflow threshold.
Grid == {0} \cup Rep \cup {Over}

\* --------------------------------------------------------------------------
\* f32 values
\* --------------------------------------------------------------------------
NaN == [cls |-> "nan", neg |-> FALSE, mag |-> 0]

Inf(s) == [cls |-> "inf", neg |-> s, mag |-> 0]

Fin(s, m) == [cls |-> "fin", neg |-> s, mag |-> m]

\* Placeholder of a call that has no f32 argument or result.
NoF32 == [cls |-> "none", neg |-> FALSE, mag |-> 0]

Zero == Fin(FALSE, 0)

NegZero == Fin(TRUE, 0)

F32 == {NaN} \cup {Inf(s) : s \in BOOLEAN} \cup {Fin(s, m) : s \in BOOLEAN, m \in {0} \cup Rep}

IsNaN(a) == a.cls = "nan"

IsInf(a) == a.cls = "inf"

IsZero(a) == a.cls = "fin" /\ a.mag = 0

\* Position of a non-NaN value on the extended real line, in units.
Key(a) == IF a.cls = "inf" THEN (IF a.neg THEN 0 - Over ELSE Over)
          ELSE (IF a.neg THEN 0 - a.mag ELSE a.mag)

\* The comparison operators of f32: every comparison with NaN is false,
\* and -0.0 == 0.0.
FEq(a, b) == ~IsNaN(a) /\ ~IsNaN(b) /\ Key(a) = Key(b)

FGe(a, b) == ~IsNaN(a) /\ ~IsNaN(b) /\ Key(a) >= Key(b)

FLt(a, b) == ~IsNaN(a) /\ ~IsNaN(b) /\ Key(a) < Key(b)

\* Mantissa spacing at magnitude r.
RECURSIVE Ulp(_)
Ulp(r) == IF r < Pow2(MantBits) THEN 1 ELSE 2 * Ulp(r \div 2)

EvenMant(r) == (r \div Ulp(r)) % 2 = 0

SetMax(S) == CHOOSE x \in S : \A y \in S : y <= x

SetMin(S) == CHOOSE x \in S : \A y \in S : x <= y

\* The rational N/D (in units, N >= 0, D > 0) rounded to nearest, ties to
\* even; the result Over stands for an overflow.
RoundMag(N, D) ==
  IF N \div D >= Over THEN Over
  ELSE LET fl == N \div D
           lo == SetMax({r \in Grid : r <= fl})
           hi == IF N % D = 0 /\ fl \in Grid THEN fl
                 ELSE SetMin({r \in Grid : r > fl})
       IN  IF lo = hi THEN lo
           ELSE IF (2 * N) \div D < lo + hi THEN lo
           ELSE IF (2 * N) % D = 0 /\ (2 * N) \div D = lo + hi
                THEN (IF EvenMant(lo) THEN lo ELSE hi)
           ELSE hi

ToF32(s, m) == IF m >= Over THEN Inf(s) ELSE Fin(s, m)

\* The decimal literal N/D as the compiler stores it.
Lit(N, D) == ToF32(FALSE, RoundMag(N * One, D))

FNeg(a) == IF IsNaN(a) THEN a ELSE [a EXCEPT !.neg = ~a.neg]

\* Reciprocals of the finite non-zero magnitudes, correctly rounded.
RecipMag == [n \in Rep |-> RoundMag(One * One, n)]

\* The f32 division 1.0 / x.
Recip(x) ==
  CASE x.cls = "nan" -> NaN
    [] x.cls = "inf" -> Fin(x.neg, 0)
    [] x.cls = "fin" /\ x.mag = 0 -> Inf(x.neg)
    [] OTHER -> ToF32(x.neg, RecipMag[x.mag])

\* --------------------------------------------------------------------------
\* The record and its operations
\* --------------------------------------------------------------------------

\* Variant of new: the island size taken from an iteration count instead of
\* being forced.
new_island_arg(dt_, erp, joint_erp, warmstart_coeff, restitution_velocity_threshold, allowed_linear_error, allowed_angular_error, max_linear_correction, max_angular_correction, prediction_distance, max_stabilization_multiplier, max_velocity_iterations, max_position_iterations, max_ccd_position_iterations, max_ccd_substeps, return_after_ccd_substep, multiple_ccd_substep_sensor_events_enabled, ccd_on_penetration_enabled) ==
  [dt |-> dt_,
   erp |-> erp,
   joint_erp |-> joint_erp,
   warmstart_coeff |-> warmstart_coeff,
   restitution_velocity_threshold |-> restitution_velocity_threshold,
   allowed_linear_error |-> allowed_linear_error,
   allowed_angular_error |-> allowed_angular_error,
   max_linear_correction |-> max_linear_correction,
   max_angular_correction |-> max_angular_correction,
   prediction_distance |-> prediction_distance,
   max_stabilization_multiplier |-> max_stabilization_multiplier,
   max_velocity_iterations |-> max_velocity_iterations,
   max_position_iterations |-> max_position_iterations,
   min_island_size |-> max_velocity_iterations,
   max_ccd_position_iterations |-> max_ccd_position_iterations,
   max_ccd_substeps |-> max_ccd_substeps,
   return_after_ccd_substep |-> return_after_ccd_substep,
   multiple_ccd_substep_sensor_events_enabled |-> multiple_ccd_substep_sensor_events_enabled,
   ccd_on_penetration_enabled |-> ccd_on_penetration_enabled]

\* Variant of new: two arguments stored in the struct's declaration order
\* instead of by name.
new_decl_order(dt_, erp, joint_erp, warmstart_coeff, restitution_velocity_threshold, allowed_linear_error, allowed_angular_error, max_linear_correction, max_angular_correction, prediction_distance, max_stabilization_multiplier, max_velocity_iterations, max_position_iterations, max_ccd_position_iterations, max_ccd_substeps, return_after_ccd_substep, multiple_ccd_substep_sensor_events_enabled, ccd_on_penetration_enabled) ==
  [dt |-> dt_,
   erp |-> erp,
   joint_erp |-> joint_erp,
   warmstart_coeff |-> warmstart_coeff,
   restitution_velocity_threshold |-> restitution_velocity_threshold,
   allowed_linear_error |-> allowed_linear_error,
   allowed_angular_error |-> prediction_distance,
   max_linear_correction |-> max_linear_correction,
   max_angular_correction |-> max_angular_correction,
   prediction_distance |-> allowed_angular_error,
   max_stabilization_multiplier |-> max_stabilization_multiplier,
   max_velocity_iterations |-> max_velocity_iterations,
   max_position_iterations |-> max_position_iterations,
   min_island_size |-> 128,
   max_ccd_position_iterations |-> max_ccd_position_iterations,
   max_ccd_substeps |-> max_ccd_substeps,
   return_after_ccd_substep |-> return_after_ccd_substep,
   multiple_ccd_substep_sensor_events_enabled |-> multiple_ccd_substep_sensor_events_enabled,
   ccd_on_penetration_enabled |-> ccd_on_penetration_enabled]

\* pub fn new(...): eighteen positional arguments, min_island_size forced.
new(dt_, erp, joint_erp, warmstart_coeff, restitution_velocity_threshold, allowed_linear_error, allowed_angular_error, max_linear_correction, max_angular_correction, prediction_distance, max_stabilization_multiplier, max_velocity_iterations, max_position_iterations, max_ccd_position_iterations, max_ccd_substeps, return_after_ccd_substep, multiple_ccd_substep_sensor_events_enabled, ccd_on_penetration_enabled) ==
  [dt |-> dt_,
   erp |-> erp,
   joint_erp |-> joint_erp,
   warmstart_coeff |-> warmstart_coeff,
   restitution_velocity_threshold |-> restitution_velocity_threshold,
   allowed_linear_error |-> allowed_linear_error,
   allowed_angular_error |-> allowed_angular_error,
   max_linear_correction |-> max_linear_correction,
   max_angular_correction |-> max_angular_correction,
   prediction_distance |-> prediction_distance,
   max_stabilization_multiplier |-> max_stabilization_multiplier,
   max_velocity_iterations |-> max_velocity_iterations,
   max_position_iterations |-> max_position_iterations,
   min_island_size |-> 128,
   max_ccd_position_iterations |-> max_ccd_position_iterations,
   max_ccd_substeps |-> max_ccd_substeps,
   return_after_ccd_substep |-> return_after_ccd_substep,
   multiple_ccd_substep_sensor_events_enabled |-> multiple_ccd_substep_sensor_events_enabled,
   ccd_on_penetration_enabled |-> ccd_on_penetration_enabled]

\* impl Default for IntegrationParameters.
default ==
  [dt |-> Recip(Lit(60, 1)),
   return_after_ccd_substep |-> FALSE,
   erp |-> Lit(2, 10),
   joint_erp |-> Lit(2, 10),
   warmstart_coeff |-> Lit(1, 1),
   restitution_velocity_threshold |-> Lit(1, 1),
   allowed_linear_error |-> Lit(5, 1000),
   prediction_distance |-> Lit(2, 1000),
   allowed_angular_error |-> Lit(1, 1000),
   max_linear_correction |-> Lit(2, 10),
   max_angular_correction |-> Lit(2, 10),
   max_stabilization_multiplier |-> Lit(2, 10),
   max_velocity_iterations |-> 4,
   max_position_iterations |-> 1,
   min_island_size |-> 128,
   max_ccd_position_iterations |-> 10,
   max_ccd_substeps |-> 1,
   multiple_ccd_substep_sensor_events_enabled |-> FALSE,
   ccd_on_penetration_enabled |-> FALSE]

\* pub fn dt(&self) -> f32
dt(self) == self.dt

\* Variant of inv_dt: the unconditional reciprocal.
inv_dt_unguarded(self) == Recip(self.dt)

\* pub fn inv_dt(&self) -> f32
inv_dt(self) == IF FEq(self.dt, Zero) THEN Zero ELSE Recip(self.dt)

\* Variant of set_dt: the store comes before the assertion.
set_dt_store_first(self, x) ==
  [self |-> [self EXCEPT !.dt = x], panic |-> ~FGe(x, Zero)]

\* Variant of set_dt: the assertion demands a positive step.
set_dt_strict(self, x) ==
  IF FGe(x, Zero) /\ ~FEq(x, Zero) THEN [self |-> [self EXCEPT !.dt = x], panic |-> FALSE]
  ELSE [self |-> self, panic |-> TRUE]

\* pub fn set_dt(&mut self, dt: f32): the assertion comes before the store.
set_dt(self, x) ==
  IF FGe(x, Zero) THEN [self |-> [self EXCEPT !.dt = x], panic |-> FALSE]
  ELSE [self |-> self, panic |-> TRUE]

\* Variant of set_inv_dt: the unconditional reciprocal.
set_inv_dt_unguarded(self, f) ==
  [self |-> [self EXCEPT !.dt = Recip(f)], panic |-> FALSE]

\* Variant of set_inv_dt: the assertion of set_dt applied to the frequency.
set_inv_dt_checked(self, f) ==
  IF ~FGe(f, Zero) THEN [self |-> self, panic |-> TRUE]
  ELSE IF FEq(f, Zero) THEN [self |-> [self EXCEPT !.dt = Zero], panic |-> FALSE]
  ELSE [self |-> [self EXCEPT !.dt = Recip(f)], panic |-> FALSE]

\* Variant of set_inv_dt: the record rebuilt from the defaults around the new dt.
set_inv_dt_reset(self, f) ==
  IF FEq(f, Zero) THEN [self |-> [default EXCEPT !.dt = Zero], panic |-> FALSE]
  ELSE [self |-> [default EXCEPT !.dt = Recip(f)], panic |-> FALSE]

\* pub fn set_inv_dt(&mut self, inv_dt: f32): no assertion.
set_inv_dt(self, f) ==
  IF FEq(f, Zero) THEN [self |-> [self EXCEPT !.dt = Zero], panic |-> FALSE]
  ELSE [self |-> [self EXCEPT !.dt = Recip(f)], panic |-> FALSE]

\* #[derive(Clone)]: a field-by-field copy.
clone(self) == self

\* --------------------------------------------------------------------------
\* Callers' inputs
\* --------------------------------------------------------------------------

\* Argument lists of new(...), in the order of its signature.  ArgsA has
\* pairwise distinct values within each type; ArgsB lies outside every
\* recommended range; ArgsC is a paused simulation; ArgsD an infinite step.
ArgsA == <<Lit(1, 32), Lit(1, 8), Lit(1, 4), Lit(3, 4), Lit(1, 2), Lit(1, 64),
           Lit(1, 128), Lit(3, 8), Lit(5, 8), Lit(1, 16), Lit(7, 8),
           8, 3, 20, 4, TRUE, FALSE, TRUE>>

ArgsB == <<FNeg(Lit(1, 1)), Lit(2, 1), FNeg(Lit(1, 2)), NaN, Inf(TRUE), NegZero,
           Inf(FALSE), Fin(FALSE, MaxMag), Fin(FALSE, 1), FNeg(Lit(3, 1)), Lit(4, 1),
           0, 0, 0, 0, FALSE, TRUE, FALSE>>

ArgsC == <<Zero, Lit(2, 10), Lit(2, 10), Lit(1, 1), Lit(1, 1), Lit(5, 1000),
           Lit(1, 1000), Lit(2, 10), Lit(2, 10), Lit(2, 1000), Lit(2, 10),
           1, 2, 3, 5, TRUE, TRUE, FALSE>>

ArgsD == <<Inf(FALSE), Lit(7, 8), Lit(1, 16), Lit(5, 8), Lit(3, 8), Lit(1, 128),
           Lit(1, 64), Lit(1, 2), Lit(3, 4), Lit(1, 4), Lit(1, 8),
           4, 20, 3, 8, FALSE, FALSE, TRUE>>

NewArgs == {ArgsA, ArgsB, ArgsC, ArgsD}

\* The instances a caller holds.
Instances == {"p", "q"}

\* f32 arguments of the two-instance specification.
SampleF32 == {NaN, Zero, Lit(1, 1), FNeg(Lit(1, 1)), Lit(2, 1), Fin(FALSE, 1)}

\* --------------------------------------------------------------------------
\* State
\* --------------------------------------------------------------------------
\* store:   the live instances and their fields.
\* call:    the latest call: operation, receiver, f32 argument, argument
\*          list of new, outcome ("ok" or "panic") and f32 result; for a
\*          set_inv_dt called with the value the preceding inv_dt() returned
\*          on the same receiver (p.set_inv_dt(p.inv_dt())), echo is "inv_dt"
\*          and before holds the receiver's last writer and dt ahead of the
\*          call.
\* written: per instance, how it was constructed and which operation last
\*          stored its dt, with that operation's argument.
VARIABLES store, call, written

vars == <<store, call, written>>

NoBefore == [op |-> "none", arg |-> NoF32, dt |-> NoF32]

Call(op, i, arg, args, outcome, ret) ==
  [op |-> op, target |-> i, arg |-> arg, args |-> args, outcome |-> outcome, ret |-> ret,
   echo |-> "none", before |-> NoBefore]

Echo(i, x) ==
  IF call.op = "inv_dt" /\ call.target = i /\ call.ret = x THEN "inv_dt" ELSE "none"

Before(i, x) ==
  IF Echo(i, x) = "none" THEN NoBefore
  ELSE [op |-> written[i].op, arg |-> written[i].arg, dt |-> store[i].dt]

Outcome(panic) == IF panic THEN "panic" ELSE "ok"

SetInvDtCall(i, f, panic) ==
  [Call("set_inv_dt", i, f, <<>>, Outcome(panic), NoF32)
     EXCEPT !.echo = Echo(i, f), !.before = Before(i, f)]

Put(f, i, v) == [j \in (DOMAIN f) \cup {i} |-> IF j = i THEN v ELSE f[j]]

\* A panic is fatal: nothing runs after it.
Running == call.outcome = "ok"

Init ==
  /\ store = [i \in {"p"} |-> default]
  /\ call = Call("default", "p", NoF32, <<>>, "ok", NoF32)
  /\ written = [i \in {"p"} |-> [ctor |-> "default", op |-> "default", arg |-> NoF32]]

\* let i = IntegrationParameters::default();
DefaultCall(i) ==
  /\ Running
  /\ store' = Put(store, i, default)
  /\ call' = Call("default", i, NoF32, <<>>, "ok", NoF32)
  /\ written' = Put(written, i, [ctor |-> "default", op |-> "default", arg |-> NoF32])

\* let i = IntegrationParameters::new(a[1], ..., a[18]);
New(i, a) ==
  /\ Running
  /\ store' = Put(store, i, new(a[1], a[2], a[3], a[4], a[5], a[6], a[7], a[8], a[9],
                                a[10], a[11], a[12], a[13], a[14], a[15], a[16],
                                a[17], a[18]))
  /\ call' = Call("new", i, NoF32, a, "ok", NoF32)
  /\ written' = Put(written, i, [ctor |-> "new", op |-> "new", arg |-> NoF32])

\* let dst = src.clone();
Clone(src, dst) ==
  /\ Running
  /\ src \in DOMAIN store
  /\ src # dst
  /\ store' = Put(store, dst, clone(store[src]))
  /\ call' = Call("clone", dst, NoF32, <<>>, "ok", NoF32)
  /\ written' = Put(written, dst, [ctor |-> "clone", op |-> "clone", arg |-> NoF32])

\* i.dt()
Dt(i) ==
  /\ Running
  /\ i \in DOMAIN store
  /\ call' = Call("dt", i, NoF32, <<>>, "ok", dt(store[i]))
  /\ UNCHANGED <<store, written>>

\* i.inv_dt()
InvDt(i) ==
  /\ Running
  /\ i \in DOMAIN store
  /\ call' = Call("inv_dt", i, NoF32, <<>>, "ok", inv_dt(store[i]))
  /\ UNCHANGED <<store, written>>

\* i.set_dt(x)
SetDt(i, x) ==
  /\ Running
  /\ i \in DOMAIN store
  /\ LET r == set_dt(store[i], x)
     IN  /\ store' = [store EXCEPT ![i] = r.self]
         /\ call' = Call("set_dt", i, x, <<>>, Outcome(r.panic), NoF32)
         /\ written' = IF r.panic THEN written
                       ELSE [written EXCEPT ![i].op = "set_dt", ![i].arg = x]

\* Variant of the call i.set_inv_dt(f): dt shared by every instance.
SetInvDt_shared(i, f) ==
  /\ Running
  /\ i \in DOMAIN store
  /\ LET r == set_inv_dt(store[i], f)
     IN  /\ store' = [j \in DOMAIN store |-> [store[j] EXCEPT !.dt = r.self.dt]]
         /\ call' = SetInvDtCall(i, f, r.panic)
         /\ written' = IF r.panic THEN written
                       ELSE [written EXCEPT ![i].op = "set_inv_dt", ![i].arg = f]

\* i.set_inv_dt(f)
SetInvDt(i, f) ==
  /\ Running
  /\ i \in DOMAIN store
  /\ LET r == set_inv_dt(store[i], f)
     IN  /\ store' = [store EXCEPT ![i] = r.self]
         /\ call' = SetInvDtCall(i, f, r.panic)
         /\ written' = IF r.panic THEN written
                       ELSE [written EXCEPT ![i].op = "set_inv_dt", ![i].arg = f]

\* One instance, every f32 argument.
Next ==
  \/ DefaultCall("p")
  \/ \E a \in NewArgs : New("p", a)
  \/ Dt("p")
  \/ InvDt("p")
  \/ \E x \in F32 : SetDt("p", x)
  \/ \E f \in F32 : SetInvDt("p", f)

Spec == Init /\ [][Next]_vars

\* Two instances and clones, sampled f32 arguments.
NextClone ==
  \/ \E i \in Instances : DefaultCall(i)
  \/ \E i \in Instances : New(i, ArgsB)
  \/ \E i, j \in Instances : Clone(i, j)
  \/ \E i \in Instances : Dt(i)
  \/ \E i \in Instances : InvDt(i)
  \/ \E i \in Instances, x \in SampleF32 : SetDt(i, x)
  \/ \E i \in Instances, f \in SampleF32 : SetInvDt(i, f)

SpecClone == Init /\ [][NextClone]_vars
\* --------------------------------------------------------------------------
\* Properties
\* --------------------------------------------------------------------------
Setters == {"set_dt", "set_inv_dt"}

Receiver == store[call.target]

\* C1: after every successfully completed set_dt or set_inv_dt, whatever the
\* argument, the stored dt is >= 0.
C1_DtNonNegativeAfterMutation ==
  (call.op \in Setters /\ call.outcome = "ok") => FGe(Receiver.dt, Zero)

\* C2: for every x < 0, set_dt(x) panics and stores nothing: every field of
\* every instance is as before the call.
C2_NegativeSetDtPanics ==
  [][(call'.op = "set_dt" /\ FLt(call'.arg, Zero))
       => (call'.outcome = "panic" /\ store' = store)]_vars

C2_Witness ==
  /\ call.op = "set_dt"
  /\ FLt(call.arg, Zero)
  /\ call.outcome = "panic"
  /\ FGe(Receiver.dt, Zero)

\* C3 as stated: inv_dt() never traps, returns 0 if and only if dt == 0, and
\* returns 1/dt when dt != 0.
C3_InvDtZeroIffDtZero ==
  call.op = "inv_dt" =>
    /\ call.outcome = "ok"
    /\ FEq(call.ret, Zero) <=> FEq(Receiver.dt, Zero)
    /\ ~FEq(Receiver.dt, Zero) => call.ret = Recip(Receiver.dt)

\* C3 amended: inv_dt() never traps; it returns 0.0 when dt == 0 and the
\* quotient 1/dt otherwise, so it returns zero if and only if dt is zero or
\* infinite; after set_dt(0) it returns exactly 0.0.
C3_InvDtZeroIffDtZeroOrInfinite ==
  call.op = "inv_dt" =>
    /\ call.outcome = "ok"
    /\ FEq(call.ret, Zero) <=> (FEq(Receiver.dt, Zero) \/ IsInf(Receiver.dt))
    /\ FEq(Receiver.dt, Zero) => call.ret = Zero
    /\ ~FEq(Receiver.dt, Zero) => call.ret = Recip(Receiver.dt)
    /\ (written[call.target].op = "set_dt" /\ FEq(written[call.target].arg, Zero))
         => call.ret = Zero

C3_Witness ==
  /\ call.op = "inv_dt"
  /\ IsInf(Receiver.dt)
  /\ written[call.target].op = "set_inv_dt"
  /\ written[call.target].arg.cls = "fin"
  /\ call.ret = Zero

\* C4: min_island_size is 128 on every instance, however it was constructed
\* and whatever set_dt / set_inv_dt calls followed.
C4_MinIslandSizeForced ==
  \A i \in DOMAIN store : store[i].min_island_size = 128

C4_Witness ==
  /\ written["p"].ctor = "new"
  /\ written["p"].op \in Setters
  /\ call.op \in Setters
  /\ store["p"].max_velocity_iterations # 128
  /\ store["p"].min_island_size = 128

\* The call was p.set_inv_dt(p.inv_dt()) made after p.set_inv_dt(f), f >= 0.
RoundTrip ==
  /\ call.op = "set_inv_dt"
  /\ call.echo = "inv_dt"
  /\ call.before.op = "set_inv_dt"
  /\ FGe(call.before.arg, Zero)

\* C5 as stated: for every f >= 0, after set_inv_dt(f) the call
\* set_inv_dt(inv_dt()) leaves dt as it was, and set_inv_dt(0) stores dt = 0.
C5_RoundTripNoOp ==
  /\ RoundTrip => Receiver.dt = call.before.dt
  /\ (call.op = "set_inv_dt" /\ FEq(call.arg, Zero)) => Receiver.dt = Zero

\* C5 amended: for every f >= 0 such that neither the dt stored by
\* set_inv_dt(f) nor the value inv_dt() then returns is infinite, the call
\* set_inv_dt(inv_dt()) leaves dt as it was; set_inv_dt(0) stores dt = 0.
C5_RoundTripNoOpWithoutOverflow ==
  /\ (RoundTrip /\ ~IsInf(call.before.dt) /\ ~IsInf(call.arg))
       => Receiver.dt = call.before.dt
  /\ (call.op = "set_inv_dt" /\ FEq(call.arg, Zero)) => Receiver.dt = Zero

C5_Witness ==
  /\ RoundTrip
  /\ ~IsInf(call.before.dt)
  /\ ~IsInf(call.arg)
  /\ ~IsZero(Receiver.dt)
  /\ call.arg # call.before.arg
  /\ Receiver.dt = call.before.dt

\* C6: for every x >= 0, zero included, and every prior state, set_dt(x)
\* succeeds and stores x, and a following dt() returns exactly x.
C6_SetDtThenDt ==
  /\ (call.op = "set_dt" /\ FGe(call.arg, Zero))
       => (call.outcome = "ok" /\ Receiver.dt = call.arg)
  /\ (call.op = "dt" /\ written[call.target].op = "set_dt")
       => call.ret = written[call.target].arg

C6_Witness ==
  /\ call.op = "dt"
  /\ written[call.target].op = "set_dt"
  /\ written[call.target].ctor = "new"
  /\ call.ret = Zero

\* C7 as stated: a call ends in a panic only if it is set_dt with a negative
\* argument.
C7_OnlyNegativeSetDtPanics ==
  call.outcome = "panic" => (call.op = "set_dt" /\ FLt(call.arg, Zero))

\* C7 amended: a call ends in a panic only if it is set_dt with an argument
\* that is not >= 0, that is, negative or NaN; default, new, dt, inv_dt,
\* set_dt(x) with x >= 0 and set_inv_dt with any argument complete.
C7_OnlySetDtNotGeZeroPanics ==
  call.outcome = "panic" => (call.op = "set_dt" /\ ~FGe(call.arg, Zero))

C7_Witness ==
  /\ call.outcome = "panic"
  /\ call.op = "set_dt"
  /\ IsNaN(call.arg)

\* C8: new(...) stores each of its eighteen arguments, unchanged, in the field
\* that has the parameter's name.
C8_NewStoresEachArgument ==
  call.op = "new" =>
    /\ Receiver.dt = call.args[1]
    /\ Receiver.erp = call.args[2]
    /\ Receiver.joint_erp = call.args[3]
    /\ Receiver.warmstart_coeff = call.args[4]
    /\ Receiver.restitution_velocity_threshold = call.args[5]
    /\ Receiver.allowed_linear_error = call.args[6]
    /\ Receiver.allowed_angular_error = call.args[7]
    /\ Receiver.max_linear_correction = call.args[8]
    /\ Receiver.max_angular_correction = call.args[9]
    /\ Receiver.prediction_distance = call.args[10]
    /\ Receiver.max_stabilization_multiplier = call.args[11]
    /\ Receiver.max_velocity_iterations = call.args[12]
    /\ Receiver.max_position_iterations = call.args[13]
    /\ Receiver.max_ccd_position_iterations = call.args[14]
    /\ Receiver.max_ccd_substeps = call.args[15]
    /\ Receiver.return_after_ccd_substep = call.args[16]
    /\ Receiver.multiple_ccd_substep_sensor_events_enabled = call.args[17]
    /\ Receiver.ccd_on_penetration_enabled = call.args[18]

C8_Witness ==
  /\ call.op = "new"
  /\ call.args = ArgsB
  /\ IsNaN(Receiver.warmstart_coeff)
  /\ FLt(Receiver.dt, Zero)

\* C9: a set_dt or set_inv_dt call on one instance, successful or failing,
\* leaves every field of every other instance unchanged, clones included.
C9_InstancesIndependent ==
  [][call'.op \in Setters
       => \A j \in (DOMAIN store) \ {call'.target} : store'[j] = store[j]]_vars

C9_Witness ==
  /\ DOMAIN store = {"p", "q"}
  /\ written["q"].ctor = "clone"
  /\ written["q"].op \in Setters
  /\ written["p"].op \notin Setters
  /\ call.op \in Setters
  /\ call.target = "q"
  /\ store["q"].dt # store["p"].dt

\* C10: set_dt and set_inv_dt change no field but dt; dt() and inv_dt() change
\* no field at all.
C10_OnlyDtWritten ==
  [][/\ call'.op \in Setters
          => [store'[call'.target] EXCEPT !.dt = store[call'.target].dt]
               = store[call'.target]
     /\ call'.op \in {"dt", "inv_dt"} => store' = store]_vars

C10_Witness ==
  /\ call.op = "set_inv_dt"
  /\ written[call.target].ctor = "new"
  /\ Receiver.erp = ArgsB[2]
  /\ Receiver.dt # ArgsB[1]
====
